---- MODULE Spec2Model ----
(***************************************************************************)
(* The single-page application template: the route table of routes.ts, the *)
(* App shell with its <Routes> element, the two Home components and the    *)
(* browser session (location, history stack, clicks) they run in.          *)
(*                                                                         *)
(* A path is the sequence of its segments: "/" is << >>, "/about" is       *)
(* <<"about">>.  Only static segments are modelled: every route the        *)
(* repository registers, and every Link target it documents, is static.    *)
(***************************************************************************)
EXTENDS Integers, Sequences, FiniteSets, TLC

VARIABLES
    added,      \* the entries a developer has added: <<definition, path, module>>
    routes,     \* the route table exported by routes.ts (an ordered sequence)
    appRoutes,  \* the <Route> children of App's <Routes> element
    pc,         \* how far the start-up / re-render sequence has come
    history,    \* the browser's history stack of paths
    idx,        \* the position of the current entry in the history stack
    match,      \* the result of the last route match (a branch of entries)
    mounted,    \* the set of page components mounted
    dom,        \* the markup in the document, a sequence of nodes
    clicks,     \* the number of click events dispatched to the button
    io,         \* the I/O requests issued so far
    renders     \* every <<component, markup>> pair a page render has returned

vars == <<added, routes, appRoutes, pc, history, idx, match, mounted, dom, clicks, io, renders>>

----------------------------------------------------------------------------
(* Bounds of the model. *)

MaxHist == 3      \* longest history stack explored
MaxClicks == 2    \* most clicks dispatched
MaxAdded == 2     \* most entries a developer adds to the route definitions

----------------------------------------------------------------------------
(* Paths and component modules. *)

RootPath == << >>
AboutPath == <<"about">>
ContactPath == <<"contact">>

\* the Link targets of the documented Navigation component: /, /about, /contact
Paths == {RootPath, AboutPath, ContactPath}

PagesHome == "@/pages/Home"
RoutesHome == "./routes/home.tsx"
RoutesAbout == "./routes/about.tsx"

\* the component modules a route entry can name
Modules == {PagesHome, RoutesHome, RoutesAbout}

----------------------------------------------------------------------------
(* Markup. *)

Node(tag, text) == [tag |-> tag, text |-> text, onClick |-> "none"]

\* <Button ...>children</Button>: a component element, not yet rendered
ButtonElement(children, onClick) == [tag |-> "Button", text |-> children, onClick |-> onClick]

\* the Button component renders a host <button> carrying its children and props
Button(el) == [tag |-> "button", text |-> el.text, onClick |-> el.onClick]

RenderButtons(markup) ==
    [i \in 1..Len(markup) |->
        IF markup[i].tag = "Button" THEN Button(markup[i]) ELSE markup[i]]

HasButtonElement(markup) == \E i \in 1..Len(markup) : markup[i].tag = "Button"

\* mutants of Home
HomeWithoutButton ==
    << Node("div", ""), Node("main", ""),
       Node("h1", "My Easel App"),
       Node("p", "Replace this with your own content.") >>

HomeCounting ==
    << Node("div", ""), Node("main", ""),
       Node("h1", "My Easel App"),
       Node("p", IF clicks > 0 THEN "Clicked." ELSE "Replace this with your own content."),
       ButtonElement("Click me", "none") >>

\* src/pages/Home.tsx: the page App mounts
Home ==
    << Node("div", ""), Node("main", ""),
       Node("h1", "My Easel App"),
       Node("p", "Replace this with your own content."),
       ButtonElement("Click me", "none") >>

\* mutant of HomeRoute: the button carries another label
HomeRouteSubmit ==
    << Node("div", ""),
       Node("#text", "Replace this with your own content."),
       ButtonElement("Submit", "none") >>

\* routes/home.tsx: the route module the route table names
HomeRoute ==
    << Node("div", ""),
       Node("#text", "Replace this with your own content."),
       ButtonElement("Click me", "none") >>

\* routes/about.tsx, the documented example page
About ==
    << Node("div", ""), Node("h1", "About Us"), Node("p", "This is the about page.") >>

Throws == << Node("#error", "Element type is invalid") >>

\* what rendering the default export of a module returns
Render(file) ==
    CASE file = PagesHome -> Home
      [] file = RoutesHome -> HomeRoute
      [] file = RoutesAbout -> About
      [] OTHER -> Throws

\* mutant of Effects: the page fetches data when it mounts
EffectsFetching(file) == IF file = PagesHome THEN {"fetch"} ELSE {}

\* the side effects a page runs when it mounts: the pages use no hook and
\* export no loader
Effects(file) == {}

----------------------------------------------------------------------------
(* Route definitions and matching. *)

index(file) == [path |-> RootPath, index |-> TRUE, element |-> file]
route(path, file) == [path |-> path, index |-> FALSE, element |-> file]
Route(path, element) == [path |-> path, index |-> FALSE, element |-> element]

\* mutant of RouteConfig: the commented-out "about" example is live
RouteConfigWithAbout == << index(RoutesHome), route(AboutPath, RoutesAbout) >>

\* routes.ts: export default [ index("./routes/home.tsx") ]
RouteConfig == << index(RoutesHome) >>

\* mutant of AppRoutes: Home is registered under the wrong path
AppRoutesAtAbout == << Route(AboutPath, PagesHome) >>

\* App: <Routes><Route path="/" element={<Home />} /></Routes>
AppRoutes == << Route(RootPath, PagesHome) >>

IsPrefix(p, q) == Len(p) <= Len(q) /\ SubSeq(q, 1, Len(p)) = p

Matching(table, loc) == {i \in 1..Len(table) : table[i].path = loc}

Least(S) == CHOOSE i \in S : \A j \in S : i <= j

\* mutant of matchRoutes: a route matches every location its path is a prefix of
matchRoutesPrefix(table, loc) ==
    LET S == {i \in 1..Len(table) : IsPrefix(table[i].path, loc)}
    IN  IF S = {} THEN << >> ELSE << table[Least(S)] >>

\* the branch <Routes> renders for a location: the entries are flat and
\* static, so entries for the same path rank equal and the first one wins
matchRoutes(table, loc) ==
    IF Matching(table, loc) = {} THEN << >> ELSE << table[Least(Matching(table, loc))] >>

\* the component a table resolves a path to, "none" if it resolves to nothing
Resolve(table, loc) ==
    IF matchRoutes(table, loc) = << >> THEN "none" ELSE matchRoutes(table, loc)[1].element

----------------------------------------------------------------------------
(* The browser session. *)

location == history[idx]

Idle == pc \in {"button", "leaf", "blank"}

TypeOK ==
    /\ pc \in {"unloaded", "loaded", "shell", "matched", "page", "button", "leaf", "blank", "error"}
    /\ idx \in 1..Len(history)
    /\ Len(history) <= MaxHist + 1
    /\ \A i \in 1..Len(history) : history[i] \in Paths
    /\ mounted \subseteq Modules
    /\ clicks \in 0..(MaxClicks + 1)

Init ==
    /\ added = << >>
    /\ routes = RouteConfig
    /\ appRoutes = AppRoutes
    /\ pc = "unloaded"
    /\ \E p \in Paths : history = << p >>
    /\ idx = 1
    /\ match = << >>
    /\ mounted = {}
    /\ dom = << >>
    /\ clicks = 0
    /\ io = {}
    /\ renders = {}

\* the browser loads the bundle
LoadBundle ==
    /\ pc = "unloaded"
    /\ pc' = "loaded"
    /\ UNCHANGED <<added, routes, appRoutes, history, idx, match, mounted, dom, clicks, io, renders>>

\* App() returns the BrowserRouter shell, which takes the browser's location
MountShell ==
    /\ pc = "loaded"
    /\ pc' = "shell"
    /\ UNCHANGED <<added, routes, appRoutes, history, idx, match, mounted, dom, clicks, io, renders>>

\* mutant of MatchRoute: the router matches before the shell has mounted
MatchRouteBeforeShell ==
    /\ pc \in {"loaded", "shell"}
    /\ match' = matchRoutes(appRoutes, location)
    /\ pc' = "matched"
    /\ UNCHANGED <<added, routes, appRoutes, history, idx, mounted, dom, clicks, io, renders>>

\* <Routes> matches the location against its <Route> children
MatchRoute ==
    /\ pc = "shell"
    /\ match' = matchRoutes(appRoutes, location)
    /\ pc' = "matched"
    /\ UNCHANGED <<added, routes, appRoutes, history, idx, mounted, dom, clicks, io, renders>>

\* the matched element renders: the page function runs and its markup replaces
\* whatever <Routes> showed before
RenderPage ==
    /\ pc = "matched"
    /\ match # << >>
    /\ LET file == match[1].element
           page == Render(file)
       IN  IF page = Throws
           THEN /\ pc' = "error"
                /\ mounted' = {}
                /\ dom' = << >>
                /\ UNCHANGED <<io, renders>>
           ELSE /\ pc' = IF HasButtonElement(page) THEN "page" ELSE "leaf"
                /\ mounted' = {file}
                /\ dom' = page
                /\ io' = io \cup Effects(file)
                /\ renders' = renders \cup {<<file, page>>}
    /\ UNCHANGED <<added, routes, appRoutes, history, idx, match, clicks>>

\* no route matches: <Routes> renders nothing
RenderNothing ==
    /\ pc = "matched"
    /\ match = << >>
    /\ pc' = "blank"
    /\ mounted' = {}
    /\ dom' = << >>
    /\ UNCHANGED <<added, routes, appRoutes, history, idx, match, clicks, io, renders>>

\* the Button component renders inside the page
RenderButton ==
    /\ pc = "page"
    /\ dom' = RenderButtons(dom)
    /\ pc' = "button"
    /\ UNCHANGED <<added, routes, appRoutes, history, idx, match, mounted, clicks, io, renders>>

\* a client-side navigation (<Link to=...>): push the path, let <Routes> match again
Navigate(to) ==
    /\ Idle
    /\ idx < MaxHist
    /\ history' = Append(SubSeq(history, 1, idx), to)
    /\ idx' = idx + 1
    /\ pc' = "shell"
    /\ UNCHANGED <<added, routes, appRoutes, match, mounted, dom, clicks, io, renders>>

\* the browser's back button
GoBack ==
    /\ Idle
    /\ idx > 1
    /\ idx' = idx - 1
    /\ pc' = "shell"
    /\ UNCHANGED <<added, routes, appRoutes, history, match, mounted, dom, clicks, io, renders>>

\* the browser's forward button
GoForward ==
    /\ Idle
    /\ idx < Len(history)
    /\ idx' = idx + 1
    /\ pc' = "shell"
    /\ UNCHANGED <<added, routes, appRoutes, history, match, mounted, dom, clicks, io, renders>>

\* mutant of Click: the button carries a handler that navigates to /about
ClickNavigating ==
    /\ pc = "button"
    /\ clicks < MaxClicks
    /\ \E i \in 1..Len(dom) : dom[i].tag = "button"
    /\ clicks' = clicks + 1
    /\ history' = Append(SubSeq(history, 1, idx), AboutPath)
    /\ idx' = idx + 1
    /\ pc' = "shell"
    /\ UNCHANGED <<added, routes, appRoutes, match, mounted, dom, io, renders>>

\* the user clicks the rendered button; <Button> was given no onClick
Click ==
    /\ pc = "button"
    /\ clicks < MaxClicks
    /\ \E i \in 1..Len(dom) : dom[i].tag = "button" /\ dom[i].onClick = "none"
    /\ clicks' = clicks + 1
    /\ UNCHANGED <<added, routes, appRoutes, pc, history, idx, match, mounted, dom, io, renders>>

Next ==
    \/ LoadBundle
    \/ MountShell
    \/ MatchRoute
    \/ RenderPage
    \/ RenderNothing
    \/ RenderButton
    \/ \E to \in Paths : Navigate(to)
    \/ GoBack
    \/ GoForward
    \/ Click

Spec == Init /\ [][Next]_vars

\* the start-up and re-render steps run to completion once they are enabled:
\* rendering is synchronous and nothing else is scheduled in between
FairSpec ==
    /\ Spec
    /\ WF_vars(LoadBundle)
    /\ WF_vars(MountShell)
    /\ WF_vars(MatchRoute)
    /\ WF_vars(RenderPage)
    /\ WF_vars(RenderNothing)
    /\ WF_vars(RenderButton)

----------------------------------------------------------------------------
(* Extending the route definitions, as "How to Add Routes" describes. *)

Table(target) == IF target = "routes.ts" THEN routes ELSE appRoutes

Targets == {"routes.ts", "App"}

\* the modules an added entry can name in each definition
Addable(target) ==
    IF target = "routes.ts"
    THEN {RoutesHome, RoutesAbout}
    ELSE {PagesHome, RoutesAbout}

\* mutant of AddRoute: the new entry replaces the definition's entries
AddRouteReplacing(target, path, file) ==
    /\ pc = "unloaded"
    /\ Len(added) < MaxAdded
    /\ added' = Append(added, <<target, path, file>>)
    /\ IF target = "routes.ts"
       THEN routes' = << route(path, file) >> /\ UNCHANGED appRoutes
       ELSE appRoutes' = << Route(path, file) >> /\ UNCHANGED routes
    /\ UNCHANGED <<pc, history, idx, match, mounted, dom, clicks, io, renders>>

\* the developer adds an entry after the existing ones, before the bundle is built
AddRoute(target, path, file) ==
    /\ pc = "unloaded"
    /\ Len(added) < MaxAdded
    /\ added' = Append(added, <<target, path, file>>)
    /\ IF target = "routes.ts"
       THEN routes' = Append(routes, route(path, file)) /\ UNCHANGED appRoutes
       ELSE appRoutes' = Append(appRoutes, Route(path, file)) /\ UNCHANGED routes
    /\ UNCHANGED <<pc, history, idx, match, mounted, dom, clicks, io, renders>>

NextEdit ==
    \/ \E t \in Targets : \E p \in Paths : \E f \in Addable(t) : AddRoute(t, p, f)
    \/ LoadBundle
    \/ MountShell
    \/ MatchRoute
    \/ RenderPage
    \/ RenderNothing
    \/ RenderButton
    \/ \E to \in Paths : Navigate(to)

SpecEdit == Init /\ [][NextEdit]_vars

----------------------------------------------------------------------------
(* What a page shows. *)

Headings == {"h1", "h2", "h3", "h4", "h5", "h6"}

PlaceholderText == "Replace this with your own content."

FullyRendered(file) == RenderButtons(Render(file))

HasHeading(m) == \E i \in 1..Len(m) : m[i].tag \in Headings

HasText(m, s) == \E i \in 1..Len(m) : m[i].tag \in {"p", "#text"} /\ m[i].text = s

ButtonLabels(m) == SelectSeq([i \in 1..Len(m) |-> IF m[i].tag = "button" THEN m[i].text ELSE ""],
                             LAMBDA t : t # "")

ParagraphTexts(m) ==
    SelectSeq([i \in 1..Len(m) |-> IF m[i].tag \in {"p", "#text"} THEN m[i].text ELSE ""],
              LAMBDA t : t # "")

\* everything a reader of the page sees, in document order
TextContent(m) == SelectSeq([i \in 1..Len(m) |-> m[i].text], LAMBDA t : t # "")

TextAndButton(m) == HasText(m, PlaceholderText) /\ ButtonLabels(m) = << "Click me" >>

PageContract(m) == HasHeading(m) /\ TextAndButton(m)

\* the components the two route definitions register for "/"
HomesRegistered ==
    {routes[i].element : i \in {j \in 1..Len(routes) : routes[j].path = RootPath}}
    \cup {appRoutes[i].element : i \in {j \in 1..Len(appRoutes) : appRoutes[j].path = RootPath}}

\* the name of the function a module exports by default
ComponentName(file) ==
    CASE file \in {PagesHome, RoutesHome} -> "Home"
      [] file = RoutesAbout -> "About"
      [] OTHER -> "unknown"

Associations(table) == {<<table[i].path, ComponentName(table[i].element)>> : i \in 1..Len(table)}

Rendered == pc \in {"page", "button", "leaf", "blank"}

----------------------------------------------------------------------------
(* C1 *)

\* C1: once App has rendered with the location at "/", exactly one page is
\* mounted, and it is the Home page.
C1_RootMountsExactlyHome ==
    (Rendered /\ location = RootPath) => (mounted = {PagesHome} /\ Cardinality(mounted) = 1)

C1_Witness ==
    /\ pc = "button" /\ Len(history) = 1 /\ location = RootPath
    /\ mounted = {PagesHome}

----------------------------------------------------------------------------
(* C2 *)

\* the step in which the developer adds path -> file to the definition `target`
AddsEntry(target, path, file) == added' = Append(added, <<target, path, file>>)

\* what the claim promises of adding path -> file to the definition `target`
AddPost(target, path, file) ==
    /\ Resolve(Table(target)', path) = file
    /\ \A q \in Paths \ {path} :
          Resolve(Table(target)', q) = file => Resolve(Table(target), q) = file
    /\ \A q \in Paths :
          Resolve(Table(target), q) # "none"
              => Resolve(Table(target)', q) = Resolve(Table(target), q)

----------------------------------------------------------------------------
(* C3 *)

\* C3 as stated: the page rendered for "/" holds a heading, the placeholder
\* text and exactly one button, labelled "Click me", and so does every Home
\* component the repository registers for "/".
C3_EveryHomeHasHeadingTextButton ==
    (Idle /\ location = RootPath) =>
        /\ PageContract(dom)
        /\ \A f \in HomesRegistered : PageContract(FullyRendered(f))

\* C3 amended: the page App renders for "/" holds a heading, the placeholder
\* text and exactly one button, labelled "Click me"; every Home component
\* registered for "/" holds the placeholder text and exactly one button,
\* labelled "Click me", and the Home of pages/Home.tsx is the one with a heading.
C3_AppHomeHasHeadingTextButton ==
    (Idle /\ location = RootPath) =>
        /\ PageContract(dom)
        /\ \A f \in HomesRegistered :
              /\ TextAndButton(FullyRendered(f))
              /\ HasHeading(FullyRendered(f)) <=> (f = PagesHome)

C3_Witness ==
    /\ pc = "button" /\ location = RootPath /\ PageContract(dom)
    /\ HomesRegistered = {PagesHome, RoutesHome}

----------------------------------------------------------------------------
(* C4 *)

\* C4: a click on the button changes nothing but the count of clicks: the
\* path, both route definitions, the mounted page and its markup stay as
\* they were, however many clicks came before.
C4_ClickChangesNothing ==
    [][clicks' # clicks =>
          UNCHANGED <<added, routes, appRoutes, pc, history, idx, match, mounted, dom, io, renders>>]_vars

C4_Witness ==
    /\ clicks >= 2 /\ pc = "button" /\ mounted = {PagesHome} /\ location = RootPath

----------------------------------------------------------------------------
(* C5 *)

\* C5: in every state of the running application both route definitions hold
\* exactly one association, "/" -> Home.
C5_RouteTableIsRootToHome ==
    /\ Len(routes) = 1 /\ Associations(routes) = {<<RootPath, "Home">>}
    /\ Len(appRoutes) = 1 /\ Associations(appRoutes) = {<<RootPath, "Home">>}

C5_Witness ==
    /\ pc = "blank" /\ clicks > 0 /\ idx > 1
    /\ Associations(routes) = {<<RootPath, "Home">>}

----------------------------------------------------------------------------
(* C6 *)

StartupOrder ==
    /\ pc' = "loaded" => pc \in {"unloaded", "loaded"}
    /\ pc' = "shell" => (pc \in {"loaded", "shell"} \/ Idle)
    /\ pc' = "matched" => pc \in {"shell", "matched"}
    /\ pc' \in {"page", "leaf", "blank"} => pc \in {"matched", pc'}
    /\ pc' = "button" => pc \in {"page", "button"}

ButtonInHome ==
    /\ pc = "button" /\ mounted = {PagesHome}
    /\ \E i \in 1..Len(dom) : dom[i].tag = "button"

\* C6: every step of start-up follows its predecessor (bundle loaded, shell
\* mounted, route matched, page rendered, button rendered), and with the
\* location at "/" the button is eventually rendered inside the Home page.
C6_StartupOrderAndButton ==
    /\ [][StartupOrder]_vars
    /\ (location = RootPath) ~> ButtonInHome

C6_Witness ==
    /\ ButtonInHome /\ location = RootPath /\ idx = 1 /\ clicks = 0

----------------------------------------------------------------------------
(* C7 *)

HomeRenders == {r \in renders : r[1] = PagesHome}

PageRenderStep == pc = "matched" /\ pc' \in {"page", "leaf", "error"}

\* C7: every render of Home, from whatever state, returns the same markup,
\* and a page render changes nothing but the mounted page and its markup.
C7_HomeIsPure ==
    /\ [](Cardinality(HomeRenders) <= 1)
    /\ [][PageRenderStep =>
            UNCHANGED <<added, routes, appRoutes, history, idx, match, clicks, io>>]_vars

C7_Witness ==
    /\ pc = "page" /\ clicks > 0 /\ idx > 1 /\ location = RootPath
    /\ Cardinality(HomeRenders) = 1

----------------------------------------------------------------------------
(* C8 *)

\* C8: no state is an error state and no I/O request has been issued.
C8_NoErrorNoIO == pc # "error" /\ io = {}

C8_Witness ==
    /\ pc = "button" /\ clicks > 0 /\ idx > 1 /\ Len(history) > idx /\ io = {}

----------------------------------------------------------------------------
(* C9 *)

\* C9: at most one page is mounted at any time, and once a navigation has
\* settled Home is mounted exactly if the path is "/" and no page is mounted
\* for any other path.
C9_MountedIsFunctionOfPath ==
    /\ Cardinality(mounted) <= 1
    /\ Idle => /\ (PagesHome \in mounted) <=> (location = RootPath)
               /\ (location # RootPath) => (mounted = {})

C9_Witness ==
    /\ pc = "blank" /\ idx > 1 /\ location = AboutPath /\ mounted = {}
    /\ history[1] = RootPath

----------------------------------------------------------------------------
(* C10 *)

SamePaths == \A p \in Paths : (Resolve(routes, p) = "none") <=> (Resolve(appRoutes, p) = "none")

\* the page the route table of routes.ts mounts for a path
RoutePage(p) == FullyRendered(Resolve(routes, p))

\* C10 as stated: the two route definitions resolve the same paths, and the
\* page App mounts for a path has the same observable content as the page the
\* route table mounts for it.
C10_SameObservableContent ==
    /\ SamePaths
    /\ (Idle /\ mounted # {}) => TextContent(dom) = TextContent(RoutePage(location))

\* C10 amended: the two route definitions resolve the same paths, and the
\* page App mounts for a path agrees with the page the route table mounts for
\* it on the text outside headings and on the single "Click me" button; the
\* heading is not part of the agreement.
C10_SameTextAndButton ==
    /\ SamePaths
    /\ (Idle /\ mounted # {}) =>
          /\ ParagraphTexts(dom) = ParagraphTexts(RoutePage(location))
          /\ ButtonLabels(dom) = << "Click me" >>
          /\ ButtonLabels(RoutePage(location)) = << "Click me" >>

C10_Witness ==
    /\ pc = "button" /\ mounted = {PagesHome} /\ Resolve(routes, location) = RoutesHome
    /\ ButtonLabels(dom) = << "Click me" >>

====
